---- MODULE Spec2Model ----
(***************************************************************************)
(* Model of packages/analytics/src/index.js: the FirebaseAnalytics module, *)
(* a validating dispatcher in front of the native analytics backend.       *)
(*                                                                         *)
(* JavaScript values are records of one shape, [type, str, num, entries]:  *)
(* a string is a sequence of one-character strings, an object is the      *)
(* sequence of its own enumerable entries in insertion order.              *)
(***************************************************************************)
EXTENDS Integers, Sequences, FiniteSets, TLC

VARIABLES lastIndex, call, thrown, native, prev

vars == <<lastIndex, call, thrown, native, prev>>

----------------------------------------------------------------------------
(* Bounds of the explored inputs *)

MaxNameLen == 2
MaxExtraParams == 1
MaxProps == 2

(* Program constants *)

MaxParams == 25
DocMaxNameLen == 32
DefaultMinimumSessionDuration == 10000
DefaultSessionTimeoutDuration == 1800000

----------------------------------------------------------------------------
(* JavaScript values *)

Undefined == [type |-> "undefined", str |-> <<>>, num |-> 0, entries |-> <<>>]
Null == [type |-> "null", str |-> <<>>, num |-> 0, entries |-> <<>>]
Bool(b) == [type |-> "boolean", str |-> <<>>, num |-> IF b THEN 1 ELSE 0, entries |-> <<>>]
Num(n) == [type |-> "number", str |-> <<>>, num |-> n, entries |-> <<>>]
Str(s) == [type |-> "string", str |-> s, num |-> 0, entries |-> <<>>]
Obj(es) == [type |-> "object", str |-> <<>>, num |-> 0, entries |-> es]
Arr(es) == [type |-> "array", str |-> <<>>, num |-> 0, entries |-> es]

typeof(v) ==
  IF v.type \in {"null", "array"} THEN "object" ELSE v.type

truthy(v) ==
  CASE v.type \in {"undefined", "null"} -> FALSE
    [] v.type = "boolean" -> v.num = 1
    [] v.type = "number" -> v.num # 0
    [] v.type = "string" -> v.str # <<>>
    [] OTHER -> TRUE

isString(v) == typeof(v) = "string"

isObject(v) ==
  IF truthy(v) THEN typeof(v) = "object" /\ v.type # "array" /\ v.type # "null" ELSE FALSE

(* a default parameter value replaces an argument that is undefined *)
DefaultParam(arg, dflt) == IF arg = Undefined THEN dflt ELSE arg

----------------------------------------------------------------------------
(* Characters and the module constants *)

LowerChars == {"a","b","c","d","e","f","g","h","i","j","k","l","m",
               "n","o","p","q","r","s","t","u","v","w","x","y","z"}
UpperChars == {"A","B","C","D","E","F","G","H","I","J","K","L","M",
               "N","O","P","Q","R","S","T","U","V","W","X","Y","Z"}
DigitChars == {"0","1","2","3","4","5","6","7","8","9"}

(* /^[a-zA-Z0-9_]+$/ : a character class repeated min..max times between   *)
(* the anchors; max = -1 stands for no upper limit; no g or y flag.        *)
AlphaNumericUnderscore_g ==
  [class |-> LowerChars \cup UpperChars \cup DigitChars \cup {"_"},
   min |-> 1, max |-> -1, global |-> TRUE]

AlphaNumericUnderscore_32 ==
  [class |-> LowerChars \cup UpperChars \cup DigitChars \cup {"_"},
   min |-> 1, max |-> DocMaxNameLen, global |-> FALSE]

AlphaNumericUnderscore ==
  [class |-> LowerChars \cup UpperChars \cup DigitChars \cup {"_"},
   min |-> 1, max |-> -1, global |-> FALSE]

ReservedEventNames_short ==
  SubSeq(<<
     <<"a","p","p","_","c","l","e","a","r","_","d","a","t","a">>,
     <<"a","p","p","_","u","n","i","n","s","t","a","l","l">>,
     <<"a","p","p","_","u","p","d","a","t","e">>,
     <<"e","r","r","o","r">>,
     <<"f","i","r","s","t","_","o","p","e","n">>,
     <<"i","n","_","a","p","p","_","p","u","r","c","h","a","s","e">>,
     <<"n","o","t","i","f","i","c","a","t","i","o","n","_","d","i","s","m","i","s","s">>,
     <<"n","o","t","i","f","i","c","a","t","i","o","n","_","f","o","r","e","g","r","o","u","n","d">>,
     <<"n","o","t","i","f","i","c","a","t","i","o","n","_","o","p","e","n">>,
     <<"n","o","t","i","f","i","c","a","t","i","o","n","_","r","e","c","e","i","v","e">>,
     <<"o","s","_","u","p","d","a","t","e">>,
     <<"s","e","s","s","i","o","n","_","s","t","a","r","t">>,
     <<"u","s","e","r","_","e","n","g","a","g","e","m","e","n","t">>
  >>, 1, 11)

ReservedEventNames ==
  <<
     <<"a","p","p","_","c","l","e","a","r","_","d","a","t","a">>,
     <<"a","p","p","_","u","n","i","n","s","t","a","l","l">>,
     <<"a","p","p","_","u","p","d","a","t","e">>,
     <<"e","r","r","o","r">>,
     <<"f","i","r","s","t","_","o","p","e","n">>,
     <<"i","n","_","a","p","p","_","p","u","r","c","h","a","s","e">>,
     <<"n","o","t","i","f","i","c","a","t","i","o","n","_","d","i","s","m","i","s","s">>,
     <<"n","o","t","i","f","i","c","a","t","i","o","n","_","f","o","r","e","g","r","o","u","n","d">>,
     <<"n","o","t","i","f","i","c","a","t","i","o","n","_","o","p","e","n">>,
     <<"n","o","t","i","f","i","c","a","t","i","o","n","_","r","e","c","e","i","v","e">>,
     <<"o","s","_","u","p","d","a","t","e">>,
     <<"s","e","s","s","i","o","n","_","s","t","a","r","t">>,
     <<"u","s","e","r","_","e","n","g","a","g","e","m","e","n","t">>
  >>

(* Array.prototype.includes over strings *)
includes(arr, s) == \E i \in 1..Len(arr) : arr[i] = s

(* RegExp.prototype.test for an anchored character-class pattern: the      *)
(* search starts at lastIndex only under the g flag, and only then is      *)
(* lastIndex written (end of the match, or 0 on failure).                  *)
test(re, s, li) ==
  LET start == IF re.global THEN li ELSE 0
      found == /\ start = 0
               /\ Len(s) >= re.min
               /\ (re.max = -1 \/ Len(s) <= re.max)
               /\ \A i \in 1..Len(s) : s[i] \in re.class
  IN [matched |-> found,
      lastIndex |-> IF re.global THEN (IF found THEN Len(s) ELSE 0) ELSE li]

----------------------------------------------------------------------------
(* Objects: own enumerable string keys *)

DigitSeq == <<"0","1","2","3","4","5","6","7","8","9">>

DigitValue(c) == (CHOOSE n \in 1..10 : DigitSeq[n] = c) - 1

RECURSIVE ToInt(_)
ToInt(s) ==
  IF s = <<>> THEN 0
  ELSE 10 * ToInt(SubSeq(s, 1, Len(s) - 1)) + DigitValue(s[Len(s)])

(* a canonical numeric string below 2^32 - 1 is an integer index *)
IsArrayIndex(k) ==
  /\ Len(k) > 0
  /\ Len(k) <= 9
  /\ \A i \in 1..Len(k) : k[i] \in DigitChars
  /\ (Len(k) = 1 \/ k[1] # "0")

RECURSIVE SortByIndex(_, _)
SortByIndex(es, S) ==
  IF S = {} THEN <<>>
  ELSE LET m == CHOOSE i \in S : \A j \in S : ToInt(es[i].key) <= ToInt(es[j].key)
       IN <<es[m].key>> \o SortByIndex(es, S \ {m})

RECURSIVE KeysOf(_)
KeysOf(es) ==
  IF es = <<>> THEN <<>> ELSE <<Head(es).key>> \o KeysOf(Tail(es))

(* Object.keys: integer indices ascending, then the other keys in         *)
(* insertion order                                                        *)
ObjectKeys(o) ==
  LET es == o.entries
      idx == {i \in 1..Len(es) : IsArrayIndex(es[i].key)}
      IsName(e) == ~IsArrayIndex(e.key)
  IN SortByIndex(es, idx) \o KeysOf(SelectSeq(es, IsName))

(* object[property] *)
Get(o, k) ==
  IF \E i \in 1..Len(o.entries) : o.entries[i].key = k
  THEN o.entries[CHOOSE i \in 1..Len(o.entries) : o.entries[i].key = k].value
  ELSE Undefined

----------------------------------------------------------------------------
(* The operations of FirebaseAnalytics.  Each returns the failure thrown   *)
(* ("none" when it returns normally), the native calls it made in order,   *)
(* and the lastIndex of the module's RegExp after it.  The failure kinds   *)
(* name the thrown Error messages.                                         *)

NativeCall(op, args) == [op |-> op, args |-> args]

Throw(kind, li) == [thrown |-> kind, native |-> <<>>, lastIndex |-> li]

Return(calls, li) == [thrown |-> "none", native |-> calls, lastIndex |-> li]

logEvent_offByOne(name, paramsArg, li) ==
  LET params == DefaultParam(paramsArg, Obj(<<>>)) IN
  IF ~isString(name) THEN Throw("InvalidArgument", li)
  ELSE IF typeof(params) # "undefined" /\ ~isObject(params)
  THEN Throw("InvalidArgument", li)
  ELSE IF includes(ReservedEventNames, name.str) THEN Throw("ReservedName", li)
  ELSE LET t == test(AlphaNumericUnderscore, name.str, li) IN
    IF ~t.matched THEN Throw("InvalidFormat", t.lastIndex)
    ELSE IF truthy(params) /\ Len(ObjectKeys(params)) >= MaxParams
    THEN Throw("LimitExceeded", t.lastIndex)
    ELSE Return(<<NativeCall("logEvent", <<name, params>>)>>, t.lastIndex)

logEvent_countFirst(name, paramsArg, li) ==
  LET params == DefaultParam(paramsArg, Obj(<<>>)) IN
  IF ~isString(name) THEN Throw("InvalidArgument", li)
  ELSE IF typeof(params) # "undefined" /\ ~isObject(params)
  THEN Throw("InvalidArgument", li)
  ELSE IF truthy(params) /\ Len(ObjectKeys(params)) > MaxParams
  THEN Throw("LimitExceeded", li)
  ELSE IF includes(ReservedEventNames, name.str) THEN Throw("ReservedName", li)
  ELSE LET t == test(AlphaNumericUnderscore, name.str, li) IN
    IF ~t.matched THEN Throw("InvalidFormat", t.lastIndex)
    ELSE Return(<<NativeCall("logEvent", <<name, params>>)>>, t.lastIndex)

logEvent(name, paramsArg, li) ==
  LET params == DefaultParam(paramsArg, Obj(<<>>)) IN
  IF ~isString(name) THEN Throw("InvalidArgument", li)
  ELSE IF typeof(params) # "undefined" /\ ~isObject(params)
  THEN Throw("InvalidArgument", li)
  ELSE IF includes(ReservedEventNames, name.str) THEN Throw("ReservedName", li)
  ELSE LET t == test(AlphaNumericUnderscore, name.str, li) IN
    IF ~t.matched THEN Throw("InvalidFormat", t.lastIndex)
    ELSE IF truthy(params) /\ Len(ObjectKeys(params)) > MaxParams
    THEN Throw("LimitExceeded", t.lastIndex)
    ELSE Return(<<NativeCall("logEvent", <<name, params>>)>>, t.lastIndex)

setAnalyticsCollectionEnabled(enabled, li) ==
  Return(<<NativeCall("setAnalyticsCollectionEnabled", <<enabled>>)>>, li)

setCurrentScreen(screenName, screenClassOverride, li) ==
  Return(<<NativeCall("setCurrentScreen", <<screenName, screenClassOverride>>)>>, li)

setMinimumSessionDuration(millisecondsArg, li) ==
  LET milliseconds == DefaultParam(millisecondsArg, Num(DefaultMinimumSessionDuration))
  IN Return(<<NativeCall("setMinimumSessionDuration", <<milliseconds>>)>>, li)

setSessionTimeoutDuration_copied(millisecondsArg, li) ==
  LET milliseconds == DefaultParam(millisecondsArg, Num(DefaultMinimumSessionDuration))
  IN Return(<<NativeCall("setSessionTimeoutDuration", <<milliseconds>>)>>, li)

setSessionTimeoutDuration(millisecondsArg, li) ==
  LET milliseconds == DefaultParam(millisecondsArg, Num(DefaultSessionTimeoutDuration))
  IN Return(<<NativeCall("setSessionTimeoutDuration", <<milliseconds>>)>>, li)

setUserId_noNull(id, li) ==
  IF ~isString(id) THEN Throw("InvalidArgument", li)
  ELSE Return(<<NativeCall("setUserId", <<id>>)>>, li)

setUserId_lateCheck(id, li) ==
  [thrown |-> IF id # Null /\ ~isString(id) THEN "InvalidArgument" ELSE "none",
   native |-> <<NativeCall("setUserId", <<id>>)>>,
   lastIndex |-> li]

setUserId(id, li) ==
  IF id # Null /\ ~isString(id) THEN Throw("InvalidArgument", li)
  ELSE Return(<<NativeCall("setUserId", <<id>>)>>, li)

setUserProperty_nameChecked(name, value, li) ==
  IF ~isString(name) \/ (value # Null /\ ~isString(value))
  THEN Throw("InvalidArgument", li)
  ELSE Return(<<NativeCall("setUserProperty", <<name, value>>)>>, li)

setUserProperty(name, value, li) ==
  IF value # Null /\ ~isString(value) THEN Throw("InvalidArgument", li)
  ELSE Return(<<NativeCall("setUserProperty", <<name, value>>)>>, li)

(* the forEach callback over keys, leaving at the first throw *)
RECURSIVE forEachProperty(_, _, _, _)
forEachProperty(object, keys, done, li) ==
  IF keys = <<>> THEN Return(done, li)
  ELSE LET property == Head(keys)
           value == Get(object, property)
       IN IF value # Null /\ ~isString(value)
          THEN [thrown |-> "InvalidArgument", native |-> done, lastIndex |-> li]
          ELSE forEachProperty(object, Tail(keys),
                 Append(done, NativeCall("setUserProperty",
                                         <<Str(property), Get(object, property)>>)), li)

(* validate every entry first, then delegate: the atomic variant *)
setUserProperties_atomic(object, li) ==
  LET keys == ObjectKeys(object)
      Bad(k) == Get(object, k) # Null /\ ~isString(Get(object, k))
  IN IF \E i \in 1..Len(keys) : Bad(keys[i])
     THEN Throw("InvalidArgument", li)
     ELSE forEachProperty(object, keys, <<>>, li)

setUserProperties(object, li) ==
  forEachProperty(object, ObjectKeys(object), <<>>, li)

----------------------------------------------------------------------------
(* Arguments the callers pass *)

(* the names the analytics platform reserves for its own events *)
ReservedNameSet ==
  {
   <<"a","p","p","_","c","l","e","a","r","_","d","a","t","a">>,
   <<"a","p","p","_","u","n","i","n","s","t","a","l","l">>,
   <<"a","p","p","_","u","p","d","a","t","e">>,
   <<"e","r","r","o","r">>,
   <<"f","i","r","s","t","_","o","p","e","n">>,
   <<"i","n","_","a","p","p","_","p","u","r","c","h","a","s","e">>,
   <<"n","o","t","i","f","i","c","a","t","i","o","n","_","d","i","s","m","i","s","s">>,
   <<"n","o","t","i","f","i","c","a","t","i","o","n","_","f","o","r","e","g","r","o","u","n","d">>,
   <<"n","o","t","i","f","i","c","a","t","i","o","n","_","o","p","e","n">>,
   <<"n","o","t","i","f","i","c","a","t","i","o","n","_","r","e","c","e","i","v","e">>,
   <<"o","s","_","u","p","d","a","t","e">>,
   <<"s","e","s","s","i","o","n","_","s","t","a","r","t">>,
   <<"u","s","e","r","_","e","n","g","a","g","e","m","e","n","t">>
  }

NameAlphabet == {"a", "_", " "}

LongName == [i \in 1..(DocMaxNameLen + 1) |-> "a"]

SampleNames ==
  {<<"o","k","_","e","v","e","n","t">>,
   <<"b","a","d"," ","n","a","m","e","!">>,
   <<"E","r","r","o","r">>,
   LongName}

Names ==
  UNION {[1..n -> NameAlphabet] : n \in 0..MaxNameLen}
    \cup ReservedNameSet
    \cup SampleNames

EventNameArgs == {Str(n) : n \in Names} \cup {Num(42), Null, Undefined}

ParamKey(i) == <<"p", DigitSeq[(i \div 10) + 1], DigitSeq[(i % 10) + 1]>>

ParamsObject(n) == Obj([i \in 1..n |-> [key |-> ParamKey(i), value |-> Num(1)]])

ParamSizes == (0..1) \cup ((MaxParams - 1)..(MaxParams + MaxExtraParams))

ParamsArgs ==
  {ParamsObject(n) : n \in ParamSizes}
    \cup {Undefined, Null, Num(5), Arr(<<>>)}

PropKeys == {<<"a">>, <<"b">>, <<"2">>, <<"1","0">>}

PropValues == {Null, Str(<<"x">>), Num(5)}

PropertyObjects ==
  {Obj(es) : es \in
     {e \in UNION {[1..n -> [key : PropKeys, value : PropValues]] : n \in 0..MaxProps} :
        \A i, j \in 1..Len(e) : i # j => e[i].key # e[j].key}}

ValueArgs ==
  {Null, Undefined, Str(<<>>), Str(<<"u","1">>), Num(42), Obj(<<>>), Bool(FALSE), Arr(<<>>)}

PropertyNameArgs == {Str(<<"a">>), Str(<<>>), Num(7), Null, Undefined, Obj(<<>>)}

EnabledArgs == {Bool(TRUE), Bool(FALSE), Undefined}

ScreenArgs == {Str(<<"H","o","m","e">>), Str(<<>>), Null, Undefined}

DurationArgs ==
  {Undefined, Num(0), Num(5000), Num(DefaultMinimumSessionDuration),
   Num(DefaultSessionTimeoutDuration), Str(<<"x">>)}

----------------------------------------------------------------------------
(* The state: lastIndex of the module-level RegExp (the only mutable       *)
(* object the module owns), the invocation last made with its outcome and  *)
(* the native calls it made, and how the invocation before it ended.       *)

NoCall == [op |-> "none", args |-> <<>>]

Summary ==
  CASE call.op = "none" -> "none"
    [] thrown = "none" -> "returned"
    [] native = <<>> -> "threw"
    [] OTHER -> "partial"

Init ==
  /\ lastIndex = 0
  /\ call = NoCall
  /\ thrown = "none"
  /\ native = <<>>
  /\ prev = "none"

Invoke(op, args, r) ==
  /\ call' = [op |-> op, args |-> args]
  /\ thrown' = r.thrown
  /\ native' = r.native
  /\ lastIndex' = r.lastIndex
  /\ prev' = Summary

LogEvent ==
  \E name \in EventNameArgs, params \in ParamsArgs :
    Invoke("logEvent", <<name, params>>, logEvent(name, params, lastIndex))

SetAnalyticsCollectionEnabled ==
  \E enabled \in EnabledArgs :
    Invoke("setAnalyticsCollectionEnabled", <<enabled>>,
           setAnalyticsCollectionEnabled(enabled, lastIndex))

SetCurrentScreen ==
  \E screenName \in ScreenArgs, screenClassOverride \in ScreenArgs :
    Invoke("setCurrentScreen", <<screenName, screenClassOverride>>,
           setCurrentScreen(screenName, screenClassOverride, lastIndex))

SetMinimumSessionDuration ==
  \E milliseconds \in DurationArgs :
    Invoke("setMinimumSessionDuration", <<milliseconds>>,
           setMinimumSessionDuration(milliseconds, lastIndex))

SetSessionTimeoutDuration ==
  \E milliseconds \in DurationArgs :
    Invoke("setSessionTimeoutDuration", <<milliseconds>>,
           setSessionTimeoutDuration(milliseconds, lastIndex))

SetUserId ==
  \E id \in ValueArgs :
    Invoke("setUserId", <<id>>, setUserId(id, lastIndex))

SetUserProperty ==
  \E name \in PropertyNameArgs, value \in ValueArgs :
    Invoke("setUserProperty", <<name, value>>, setUserProperty(name, value, lastIndex))

SetUserProperties ==
  \E object \in PropertyObjects :
    Invoke("setUserProperties", <<object>>, setUserProperties(object, lastIndex))

Next ==
  \/ LogEvent
  \/ SetAnalyticsCollectionEnabled
  \/ SetCurrentScreen
  \/ SetMinimumSessionDuration
  \/ SetSessionTimeoutDuration
  \/ SetUserId
  \/ SetUserProperty
  \/ SetUserProperties

Spec == Init /\ [][Next]_vars

----------------------------------------------------------------------------
(* Vocabulary of the properties *)

WordChars == LowerChars \cup UpperChars \cup DigitChars \cup {"_"}

(* the string matches ^[A-Za-z0-9_]+$ *)
MatchesPattern(s) == Len(s) >= 1 /\ \A i \in 1..Len(s) : s[i] \in WordChars

IsStringValue(v) == v.type = "string"

IsMapping(v) == v.type = "object"

Omitted(v) == v = Undefined

(* a user property value that is neither null nor a string *)
BadValue(v) == v # Null /\ ~IsStringValue(v)

Failed == thrown # "none"

DelegatedOnce(op, args) == thrown = "none" /\ native = <<[op |-> op, args |-> args]>>

FailedWith(kind) == thrown = kind /\ native = <<>>

IsLogEvent == call.op = "logEvent" /\ IsStringValue(call.args[1])

----------------------------------------------------------------------------
C2_ReservedWhateverParams ==
  (IsLogEvent /\ call.args[1].str \in ReservedNameSet)
  => FailedWith("ReservedName")

(* C2 amended: logEvent with a reserved name fails with ReservedName and  *)
(* makes no native call whenever params is omitted or a mapping, of any   *)
(* size.                                                                  *)
C2_ReservedAnyMapping ==
  (/\ IsLogEvent
   /\ call.args[1].str \in ReservedNameSet
   /\ (Omitted(call.args[2]) \/ IsMapping(call.args[2])))
  => FailedWith("ReservedName")

C2_Witness ==
  /\ IsLogEvent
  /\ call.args[1].str \in ReservedNameSet
  /\ IsMapping(call.args[2]) /\ Len(call.args[2].entries) > 25
  /\ thrown = "ReservedName"

(* C3: for a valid, non-reserved name and a params mapping, logEvent      *)
(* fails with LimitExceeded and no native call exactly when params has    *)
(* more than 25 keys, and otherwise succeeds with one native call.        *)
C3_CapIsTwentyFive ==
  (/\ IsLogEvent
   /\ MatchesPattern(call.args[1].str)
   /\ call.args[1].str \notin ReservedNameSet
   /\ IsMapping(call.args[2]))
  => IF Len(call.args[2].entries) > 25
     THEN FailedWith("LimitExceeded")
     ELSE thrown = "none" /\ Len(native) = 1 /\ native[1].op = "logEvent"

C3_Witness ==
  /\ IsLogEvent
  /\ IsMapping(call.args[2]) /\ Len(call.args[2].entries) = 25
  /\ thrown = "none"
  /\ Len(native) = 1

(* C4: logEvent with a string name that does not match ^[A-Za-z0-9_]+$    *)
(* and params omitted or a mapping of any size fails with InvalidFormat   *)
(* and makes no native call, also when params has more than 25 keys.      *)
C4_FormatBeforeCount ==
  (/\ IsLogEvent
   /\ ~MatchesPattern(call.args[1].str)
   /\ (Omitted(call.args[2]) \/ IsMapping(call.args[2])))
  => FailedWith("InvalidFormat")

C4_Witness ==
  /\ IsLogEvent
  /\ ~MatchesPattern(call.args[1].str)
  /\ IsMapping(call.args[2]) /\ Len(call.args[2].entries) > 25
  /\ thrown = "InvalidFormat"

----------------------------------------------------------------------------
(* Vocabulary of the setUserProperties properties *)

IsSetUserProperties == call.op = "setUserProperties"

Min(S) == CHOOSE m \in S : \A n \in S : m <= n

(* the calls and the outcome the entries es, taken in the order given,    *)
(* stand for: one call per entry before the first bad value               *)
PrefixOutcome(es) ==
  LET bad == {i \in 1..Len(es) : BadValue(es[i].value)}
      n == IF bad = {} THEN Len(es) ELSE Min(bad) - 1
  IN [thrown |-> IF bad = {} THEN "none" ELSE "InvalidArgument",
      native |-> [i \in 1..n |->
                    [op |-> "setUserProperty",
                     args |-> <<Str(es[i].key), es[i].value>>]]]

(* setUserProperty(key, value) entry after entry, stopping at a failure *)
RECURSIVE OneByOne(_, _)
OneByOne(es, done) ==
  IF es = <<>> THEN [thrown |-> "none", native |-> done]
  ELSE LET r == setUserProperty(Str(Head(es).key), Head(es).value, 0)
       IN IF r.thrown # "none" THEN [thrown |-> r.thrown, native |-> done \o r.native]
          ELSE OneByOne(Tail(es), done \o r.native)

(* the orders of the entries in which integer-index keys come first, in   *)
(* ascending numeric order, and the other keys follow in insertion order  *)
EnumerationOrders(es) ==
  {f \in [1..Len(es) -> 1..Len(es)] :
     /\ \A a, b \in 1..Len(es) : a # b => f[a] # f[b]
     /\ \A a, b \in 1..Len(es) : a < b =>
          LET x == es[f[a]].key
              y == es[f[b]].key
          IN /\ IsArrayIndex(y) => (IsArrayIndex(x) /\ ToInt(x) < ToInt(y))
             /\ (~IsArrayIndex(x) /\ ~IsArrayIndex(y)) => f[a] < f[b]}

Outcome == [thrown |-> thrown, native |-> native]

(* C5 as stated: the native calls of setUserProperties are the entries in *)
(* insertion order up to the first value that is neither null nor a       *)
(* string; it fails with InvalidArgument exactly when there is one.       *)
C5_PrefixInInsertionOrder ==
  IsSetUserProperties => Outcome = PrefixOutcome(call.args[1].entries)

(* C5 amended: the native calls of setUserProperties are the entries in   *)
(* Object.keys order (integer-index keys ascending, then the other keys   *)
(* in insertion order) up to the first value that is neither null nor a   *)
(* string; it fails with InvalidArgument exactly when there is one, and   *)
(* the calls equal those of setUserProperty called entry by entry in that *)
(* order until the first failure.                                         *)
C5_PrefixInEnumerationOrder ==
  IsSetUserProperties =>
    LET es == call.args[1].entries IN
    /\ EnumerationOrders(es) # {}
    /\ \A f \in EnumerationOrders(es) :
         LET ord == [i \in 1..Len(es) |-> es[f[i]]]
         IN /\ Outcome = PrefixOutcome(ord)
            /\ Outcome = OneByOne(ord, <<>>)

C5_Witness ==
  /\ IsSetUserProperties
  /\ thrown = "InvalidArgument"
  /\ Len(native) >= 1
  /\ Len(native) < Len(call.args[1].entries)
  /\ native[1].args[1] # Str(call.args[1].entries[1].key)

(* C6: logEvent, setUserId and setUserProperty make no native call when   *)
(* they fail and exactly one when they do not; only setUserProperties     *)
(* fails after having made native calls.                                  *)
C6_ValidateBeforeDelegate ==
  /\ call.op \in {"logEvent", "setUserId", "setUserProperty"} =>
       IF Failed THEN native = <<>> ELSE Len(native) = 1
  /\ (Failed /\ native # <<>>) => IsSetUserProperties

C6_Witness ==
  /\ call.op = "setUserId"
  /\ thrown = "InvalidArgument"
  /\ native = <<>>
  /\ prev = "partial"

(* C7: setUserId(id) fails with InvalidArgument and no native call        *)
(* exactly when id is neither null nor a string; otherwise it makes one   *)
(* native setUserId call with the same id.                                *)
C7_SetUserId ==
  call.op = "setUserId" =>
    IF call.args[1] = Null \/ IsStringValue(call.args[1])
    THEN DelegatedOnce("setUserId", <<call.args[1]>>)
    ELSE FailedWith("InvalidArgument")

C7_Witness ==
  /\ call.op = "setUserId"
  /\ call.args[1] = Str(<<>>)
  /\ thrown = "none"
  /\ Len(native) = 1

(* C8: setUserProperty(name, value) fails with InvalidArgument and no     *)
(* native call exactly when value is neither null nor a string, whatever  *)
(* name is; otherwise it makes one native setUserProperty call with the   *)
(* same name and value.                                                   *)
C8_SetUserProperty ==
  call.op = "setUserProperty" =>
    IF BadValue(call.args[2])
    THEN FailedWith("InvalidArgument")
    ELSE DelegatedOnce("setUserProperty", <<call.args[1], call.args[2]>>)

C8_Witness ==
  /\ call.op = "setUserProperty"
  /\ ~IsStringValue(call.args[1])
  /\ call.args[2] = Null
  /\ thrown = "none"
  /\ Len(native) = 1

(* C9: setAnalyticsCollectionEnabled, setCurrentScreen,                   *)
(* setMinimumSessionDuration and setSessionTimeoutDuration never fail and *)
(* make one native call of the same operation with the same arguments,    *)
(* an omitted duration being replaced by 10000 and 1800000 respectively.  *)
C9_Unvalidated ==
  /\ call.op \in {"setAnalyticsCollectionEnabled", "setCurrentScreen"} =>
       DelegatedOnce(call.op, call.args)
  /\ call.op = "setMinimumSessionDuration" =>
       DelegatedOnce(call.op,
         <<IF Omitted(call.args[1]) THEN Num(10000) ELSE call.args[1]>>)
  /\ call.op = "setSessionTimeoutDuration" =>
       DelegatedOnce(call.op,
         <<IF Omitted(call.args[1]) THEN Num(1800000) ELSE call.args[1]>>)

C9_Witness ==
  /\ call.op = "setSessionTimeoutDuration"
  /\ Omitted(call.args[1])
  /\ prev = "returned"
  /\ native = <<[op |-> "setSessionTimeoutDuration", args |-> <<Num(1800000)>>]>>

(* the same call made on a dispatcher that has no history *)
Fresh(c) ==
  CASE c.op = "logEvent" -> logEvent(c.args[1], c.args[2], 0)
    [] c.op = "setAnalyticsCollectionEnabled" -> setAnalyticsCollectionEnabled(c.args[1], 0)
    [] c.op = "setCurrentScreen" -> setCurrentScreen(c.args[1], c.args[2], 0)
    [] c.op = "setMinimumSessionDuration" -> setMinimumSessionDuration(c.args[1], 0)
    [] c.op = "setSessionTimeoutDuration" -> setSessionTimeoutDuration(c.args[1], 0)
    [] c.op = "setUserId" -> setUserId(c.args[1], 0)
    [] c.op = "setUserProperty" -> setUserProperty(c.args[1], c.args[2], 0)
    [] c.op = "setUserProperties" -> setUserProperties(c.args[1], 0)

(* C10: after any history, the outcome of an operation and the native     *)
(* calls it makes are those the same call has on a dispatcher without     *)
(* history, so they depend on the call's arguments alone.                 *)
C10_HistoryIndependent ==
  call.op # "none" =>
    /\ thrown = Fresh(call).thrown
    /\ native = Fresh(call).native

C10_Witness ==
  /\ prev = "partial"
  /\ IsLogEvent
  /\ MatchesPattern(call.args[1].str)
  /\ thrown = "none"
  /\ Len(native) = 1

====
